---- MODULE Spec2Model ----
(***************************************************************************)
(* The tile visualisation of js/app.js: the layout generator               *)
(* (buildTargets), the transition engine (transform, driven by the         *)
(* animate loop through the TWEEN job registry) and the loader that        *)
(* connects them (loadCSV -> buildTiles -> buildTargets -> transform).     *)
(*                                                                         *)
(* Numbers.  JavaScript numbers are binary floating point.  A coordinate   *)
(* is modelled as an integer that has at most MantBits significant bits    *)
(* (round to nearest, ties to even), so that start + (end - start) is      *)
(* rounded twice exactly as in the program.  A value of the unit interval  *)
(* (elapsed fraction, easing value) is a multiple of 1/EaseUnit.           *)
(* Timestamps are whole milliseconds.                                      *)
(*                                                                         *)
(* The tween interpolates x, y and z of a position by one and the same     *)
(* rule, so a pose carries one coordinate: the one its formation computes  *)
(* without a trigonometric function (table x, sphere z, helix y, grid x).  *)
(* An orientation is a symbolic value (identity, the lookAt result of a    *)
(* formation item, or an interpolated value).                              *)
(***************************************************************************)
EXTENDS Integers, Sequences, FiniteSets, Bags, TLC

(* ------------------------------ bounds --------------------------------- *)

\* Largest number of CSV records (tiles).
MaxCount == 2

\* Number of button clicks explored.
MaxClicks == 2

\* Last timestamp (ms) at which an animation frame is explored.
MaxTime == 2400

\* Calls of buildTiles and of buildTargets explored when the functions are
\* called in any order.
MaxLoads == 2

MaxBuilds == 2

\* Largest count explored for the layout generator on its own.
MaxItems == 12

\* Largest number of records explored where only the scheduling and the
\* layout matter (the stagger reaches its cap at the 51st tile).
MaxTiles == 54

\* Significant bits of a modelled coordinate (53 in the program).
MantBits == 9

\* Fractional bits of a modelled unit-interval value.
EaseBits == 8

MaxParts == 4

MaxMoves == 2

MaxTable == 204

NumCap == 1000000

(* --------------------------- number helpers ---------------------------- *)

Abs(n) == IF n < 0 THEN -n ELSE n

Min(a, b) == IF a < b THEN a ELSE b

Max(a, b) == IF a < b THEN b ELSE a

RECURSIVE Pow2(_)
Pow2(n) == IF n <= 0 THEN 1 ELSE 2 * Pow2(n - 1)

\* ceil(a / b) for a >= 0, b > 0: Math.ceil of a quotient.
CeilDiv(a, b) == (a + b - 1) \div b

\* n / d rounded to the nearest integer, ties to the even one (d > 0).
RoundHalfEven(n, d) ==
    LET a == Abs(n)
        q == a \div d
        r == a % d
        up == (2 * r > d) \/ (2 * r = d /\ q % 2 = 1)
        m == IF up THEN q + 1 ELSE q
    IN  IF n < 0 THEN -m ELSE m

\* The spacing of the coordinate format at magnitude a / d: the least power
\* of two k with a / d < 2^MantBits * k.
RECURSIVE Spacing(_, _, _)
Spacing(a, d, k) ==
    IF a < Pow2(MantBits) * k * d THEN k ELSE Spacing(a, d, 2 * k)

\* Unit in the last place of the coordinate n.
Ulp(n) == Spacing(Abs(n), 1, 1)

\* The rational n / d rounded to a coordinate.
FRnd(n, d) ==
    LET k == Spacing(Abs(n), d, 1)
    IN  k * RoundHalfEven(n, d * k)

IsCoord(n) == FRnd(n, 1) = n

\* Floating-point a + b, a - b on coordinates.
FAdd(a, b) == FRnd(a + b, 1)

FSub(a, b) == FRnd(a - b, 1)

\* One unit-interval unit: the value 1.0.
EaseUnit == Pow2(EaseBits)

\* Product of two unit-interval values, rounded.
UMul(a, b) == RoundHalfEven(a * b, EaseUnit)

\* Product of a coordinate and a unit-interval value, rounded.
FMulU(c, v) == FRnd(c * v, EaseUnit)

(* ---------------------- Math.sqrt, Math.cos, Math.acos ----------------- *)

\* One unit of an angle or of a sine or cosine: these are multiples of
\* 1 / TrigUnit, four times finer than a unit-interval value.
TrigUnit == 4 * EaseUnit

\* Product of two such values, rounded.
TMul(a, b) == RoundHalfEven(a * b, TrigUnit)

\* Math.PI.
PiT == RoundHalfEven(355 * TrigUnit, 113)

\* Math.sqrt of the integer n >= 0, rounded to the nearest integer: the
\* root lies in lo..hi.
RECURSIVE SqrtIn(_, _, _)
SqrtIn(n, lo, hi) ==
    IF lo >= hi THEN lo
    ELSE LET mid == (lo + hi + 1) \div 2
         IN  IF mid * mid - mid < n THEN SqrtIn(n, mid, hi) ELSE SqrtIn(n, lo, mid - 1)

Sqrt(n) == SqrtIn(n, 0, 46340)

\* The series 1 - x^2/2! + x^4/4! - ... from the term of index k on; x2 is
\* x^2 and term the term before.
RECURSIVE CosSeries(_, _, _)
CosSeries(x2, term, k) ==
    LET next == RoundHalfEven(-(TMul(term, x2)), (2 * k - 1) * (2 * k))
    IN  IF next = 0 THEN 0 ELSE next + CosSeries(x2, next, k + 1)

\* Math.cos of an angle x >= 0: the argument is reduced to 0..PI/2.
Cos(x) ==
    LET r == x % (2 * PiT)
        h == IF r > PiT THEN 2 * PiT - r ELSE r
        q == IF 2 * h > PiT THEN PiT - h ELSE h
        c == TrigUnit + CosSeries(TMul(q, q), TrigUnit, 1)
    IN  IF 2 * h > PiT THEN -c ELSE c

\* Math.sin of an angle x >= 0: cos(x + 3 PI / 2).
Sin(x) == Cos(x + PiT + PiT \div 2)

\* Math.acos of c in -1..1: the angle in lo..hi whose cosine is nearest c
\* (the cosine decreases from 0 to PI).
RECURSIVE AcosIn(_, _, _)
AcosIn(c, lo, hi) ==
    IF hi - lo <= 1
    THEN IF Abs(Cos(lo) - c) <= Abs(Cos(hi) - c) THEN lo ELSE hi
    ELSE LET mid == (lo + hi) \div 2
         IN  IF Cos(mid) > c THEN AcosIn(c, mid, hi) ELSE AcosIn(c, lo, mid)

Acos(c) == AcosIn(c, 0, PiT)

(* ------------------------- TWEEN library values ------------------------ *)

\* (time - startTime) / duration without the clamp to 1.
ElapsedUnclamped(time, startTime, duration) ==
    RoundHalfEven((time - startTime) * EaseUnit, duration)

\* (time - startTime) / duration, clamped to 1 (Tween.update).  A correctly
\* rounded quotient of a < b is below 1, so only e >= duration gives 1.
Elapsed(time, startTime, duration) ==
    IF duration = 0 \/ time - startTime >= duration
    THEN EaseUnit
    ELSE Min(RoundHalfEven((time - startTime) * EaseUnit, duration), EaseUnit - 1)

\* TWEEN.Easing.Cubic.InOut:
\*   if ((amount *= 2) < 1) return 0.5 * amount * amount * amount;
\*   return 0.5 * ((amount -= 2) * amount * amount + 2);
CubicInOut(e) ==
    LET a == 2 * e
        b == a - 2 * EaseUnit
    IN  IF a < EaseUnit
        THEN UMul(UMul(e, a), a)
        ELSE RoundHalfEven(UMul(UMul(b, b), b) + 2 * EaseUnit, 2)

\* Tween._updateProperties for a number: start + (end - start) * value.
Lerp(start, end, value) == FAdd(start, FMulU(FSub(end, start), value))

(* ----------------------------- orientations ---------------------------- *)

\* The quaternion of a fresh THREE.Object3D or THREE.Mesh.
Identity == [k |-> "identity"]

\* Placeholder in a job that carries no quaternion.
NoQuat == [k |-> "none"]

\* obj.lookAt(2 * position) of sphere item i of count items.
SphereQuat(i, count) == [k |-> "sphere", i |-> i, n |-> count]

\* obj.lookAt(0, helixHeight, 0) of helix item i: the direction is
\* horizontal and is fixed by the angle of item i.
HelixQuat(i) == [k |-> "helix", i |-> i]

\* qa up to the rounding of an interpolation.
Near(qa) == [k |-> "near", q |-> qa]

\* A slerp that would interpolate in floating point also when the dot
\* product is exactly 1.
SlerpWithoutShortcut(qa, qb, t) ==
    IF t = 0 THEN {qa}
    ELSE IF t = EaseUnit THEN {qb}
    ELSE IF qa = qb THEN {qa, Near(qa)}
         ELSE {[k |-> "mid", a |-> qa, b |-> qb, t |-> t]}

\* THREE.Quaternion.slerp(qb, t) applied to a copy of qa; the set of results
\* a build can give.  t = 0 returns qa and t = 1 copies qb.  Between them the
\* result is computed in floating point: for qa = qb it is qa itself when
\* the dot product is exactly 1 (the identity) and otherwise qa up to
\* rounding, which may or may not be qa bit for bit.
Slerp(qa, qb, t) ==
    IF t = 0 THEN {qa}
    ELSE IF t = EaseUnit THEN {qb}
    ELSE IF qa = qb
         THEN IF qa = Identity THEN {qa} ELSE {qa, Near(qa)}
         ELSE {[k |-> "mid", a |-> qa, b |-> qb, t |-> t]}

(* --------------------------- layout generator -------------------------- *)

\* Table: (i % 20) * 220 - 2200, -(floor(i / 20) % 10) * 260 + 1200, 0.
TableCol(i) == i % 20

\* A row that would change every 10 items.
TableRowByTen(i) == (i \div 10) % 10

\* A row that would not start again after ten rows.
TableRowUnwrapped(i) == i \div 20

TableRow(i) == (i \div 20) % 10

TableX(i) == TableCol(i) * 220 - 2200

TableY(i) == -TableRow(i) * 260 + 1200

\* The numerator without the offset of half an index: -1 + 2 i / count.
SphereCosNumNoOffset(i, count) == 2 * i - count

\* Sphere: phi = acos(-1 + (2 * (i + 0.5)) / count); z = 1400 * cos(phi).
\* The argument of acos as the fraction SphereCosNum / count.
SphereCosNum(i, count) == 2 * i + 1 - count

SphereZ(i, count) == FRnd(1400 * SphereCosNum(i, count), count)

\* Product of a coordinate and a sine or cosine, rounded to a coordinate.
FMulT(c, v) == FRnd(c * v, TrigUnit)

\* The argument of acos, -1 + (2 * (i + 0.5)) / count.
SphereArg(i, count) == RoundHalfEven(SphereCosNum(i, count) * TrigUnit, count)

\* theta = Math.sqrt(count * Math.PI) * phi for a given phi.
\* Math.sqrt(count * Math.PI) in units of 1 / TrigUnit; for the counts whose
\* product would leave 32 bits, from a quarter of it.
SqrtCountPi(count) ==
    IF count * PiT <= 2147483647 \div TrigUnit
    THEN Sqrt(count * PiT * TrigUnit)
    ELSE 2 * Sqrt(count * PiT * (TrigUnit \div 4))

ThetaOf(phi, count) == TMul(SqrtCountPi(count), phi)

\* phi and theta of item i.
SpherePhi(i, count) == Acos(SphereArg(i, count))

SphereTheta(i, count) == ThetaOf(SpherePhi(i, count), count)

\* x = 1400 * Math.cos(theta) * Math.sin(phi) and
\* y = 1400 * Math.sin(theta) * Math.sin(phi), evaluated from the left.
SphereXAt(theta, sinPhi) == FMulT(FMulT(1400, Cos(theta)), sinPhi)

\* A y that would take the cosine of theta, as x does.
SphereYAtCos(theta, sinPhi) == FMulT(FMulT(1400, Cos(theta)), sinPhi)

SphereYAt(theta, sinPhi) == FMulT(FMulT(1400, Sin(theta)), sinPhi)

SphereX(i, count) ==
    SphereXAt(SphereTheta(i, count), Sin(SpherePhi(i, count)))

SphereY(i, count) ==
    SphereYAt(SphereTheta(i, count), Sin(SpherePhi(i, count)))

\* Helix: strand, pair and height of item i.
HelixStrand(i) == i % 2

HelixPair(i) == i \div 2

HelixSegments(count) == CeilDiv(count, 2)

\* helixRadius.
HelixRadius == 800

\* An offset that would take half of every segment, not of the gaps.
HelixYOffsetAllSegments(count) == (HelixSegments(count) * 40) \div 2

\* helixYOffset = (totalSegments - 1) * verticalSpacing / 2, a whole number.
HelixYOffset(count) == ((HelixSegments(count) - 1) * 40) \div 2

HelixHeight(i, count) == HelixPair(i) * 40 - HelixYOffset(count)

\* A helix angle is kept exactly, as pi * PI + milli / 1000.
Angle(p, m) == [pi |-> p, milli |-> m]

AddAngle(a, b) == Angle(a.pi + b.pi, a.milli + b.milli)

\* angleStep, in thousandths.
AngleStep == 250

\* An angle that would leave out the stagger of the second strand.
HelixAngleNoStagger(i, angleStep) ==
    AddAngle(Angle(0, HelixPair(i) * angleStep),
             IF HelixStrand(i) = 0 THEN Angle(0, 0) ELSE Angle(1, 0))

\* An angle that would step with the item instead of with the pair.
HelixAngleSingleStrand(i, angleStep) ==
    AddAngle(AddAngle(Angle(0, i * angleStep),
                      IF HelixStrand(i) = 0 THEN Angle(0, 0) ELSE Angle(1, 0)),
             IF HelixStrand(i) = 0 THEN Angle(0, 0)
             ELSE Angle(0, (angleStep * 4) \div 10))

\* angle = baseAngle + strandPhase + stagger of item i for an angleStep.
HelixAngle(i, angleStep) ==
    LET baseAngle == Angle(0, HelixPair(i) * angleStep)
        strandPhase == IF HelixStrand(i) = 0 THEN Angle(0, 0) ELSE Angle(1, 0)
        stagger == IF HelixStrand(i) = 0 THEN Angle(0, 0)
                   ELSE Angle(0, (angleStep * 4) \div 10)
    IN  AddAngle(AddAngle(baseAngle, strandPhase), stagger)

\* Grid: (i % 5) * 300 - 600, (floor(i / 5) % 4) * 400 - 400, centeredZ.
GridX(i) == (i % 5) * 300 - 600

\* A grid of three rows to the layer.
GridYThreeRows(i) == ((i \div 5) % 3) * 400 - 400

GridY(i) == ((i \div 5) % 4) * 400 - 400

GridLayers(count) == CeilDiv(count, 20)

\* A depth whose totalDepth would count every layer, not the gaps between.
GridZAllLayers(i, count) == (i \div 20) * 400 - (GridLayers(count) * 400) \div 2

GridZ(i, count) == (i \div 20) * 400 - ((GridLayers(count) - 1) * 400) \div 2

Pose(p, q) == [pos |-> p, quat |-> q]

\* The four loops of buildTargets: for (let i = 0; i < count; i++) push.
TableTargets(count) == [n \in 1..count |-> Pose(TableX(n - 1), Identity)]

SphereTargets(count) ==
    [n \in 1..count |-> Pose(SphereZ(n - 1, count), SphereQuat(n - 1, count))]

HelixTargets(count) ==
    [n \in 1..count |-> Pose(HelixHeight(n - 1, count), HelixQuat(n - 1))]

GridTargets(count) == [n \in 1..count |-> Pose(GridX(n - 1), Identity)]

Formations == {"table", "sphere", "helix", "grid"}

EmptyTargets == [f \in Formations |-> << >>]

\* The four loops of buildTargets pushing onto the arrays of base.
FillTargets(base, count) ==
    [f \in Formations |->
        base[f] \o (CASE f = "table" -> TableTargets(count)
                      [] f = "sphere" -> SphereTargets(count)
                      [] f = "helix" -> HelixTargets(count)
                      [] f = "grid" -> GridTargets(count))]

\* buildTargets without the reset of line 527 (as in the earliest variant):
\* it pushes onto the arrays of the earlier call.
BuildTargetsNoReset(prev, count) == FillTargets(prev, count)

\* buildTargets that would start only targets.table afresh.
BuildTargetsResettingTable(prev, count) ==
    FillTargets([prev EXCEPT !.table = << >>], count)

\* buildTargets(count): targets is replaced by four fresh arrays, each
\* filled by its loop; prev is the value targets had before the call.
BuildTargets(prev, count) == FillTargets(EmptyTargets, count)

\* The geometry of the items beyond the coordinate a pose carries.
TableItem(i) ==
    [i |-> i, col |-> TableCol(i), row |-> TableRow(i),
     x |-> TableX(i), y |-> TableY(i), z |-> 0]

SphereItem(i, count) ==
    LET arg == SphereArg(i, count)
        phi == Acos(arg)
        theta == ThetaOf(phi, count)
        sinPhi == Sin(phi)
    IN  [i |-> i, num |-> SphereCosNum(i, count), den |-> count, arg |-> arg,
         x |-> SphereXAt(theta, sinPhi), y |-> SphereYAt(theta, sinPhi),
         z |-> SphereZ(i, count)]

HelixItem(i, count) ==
    [i |-> i, strand |-> HelixStrand(i), pair |-> HelixPair(i),
     angle |-> HelixAngle(i, AngleStep), radius |-> HelixRadius,
     y |-> HelixHeight(i, count)]

GridItem(i, count) ==
    [i |-> i, x |-> GridX(i), y |-> GridY(i), z |-> GridZ(i, count)]

EmptyLayout == [f \in Formations |-> << >>]

\* What the four loops of buildTargets compute, item by item.
LayoutOf(count) ==
    [f \in Formations |->
        CASE f = "table" -> [n \in 1..count |-> TableItem(n - 1)]
          [] f = "sphere" -> [n \in 1..count |-> SphereItem(n - 1, count)]
          [] f = "helix" -> [n \in 1..count |-> HelixItem(n - 1, count)]
          [] f = "grid" -> [n \in 1..count |-> GridItem(n - 1, count)]]

\* The same for every count explored, computed once.
MaxLayout == Max(MaxTiles, Max(MaxItems, MaxCount))

Layouts == [count \in 0..MaxLayout |-> LayoutOf(count)]

\* The counts around 200, the number of places of the table (20 columns,
\* 10 rows), and their layouts, computed once.
TableCounts == (MaxTable - 9)..MaxTable

TableLayouts == [count \in TableCounts |-> LayoutOf(count)]

Layout(count) ==
    IF count <= MaxLayout THEN Layouts[count]
    ELSE IF count \in TableCounts THEN TableLayouts[count]
    ELSE LayoutOf(count)

\* window._helixMeta set by buildTargets.
HelixMeta(count) == [radius |-> HelixRadius, totalHeight |-> HelixSegments(count) * 40]

(* ------------- the layout generator of the CSS3D variant --------------- *)

\* Its helix constants: angleStep (in thousandths) and verticalSpacing.
AngleStepCss == 800

VerticalSpacingCss == 60

HelixYOffsetCss(count) == ((HelixSegments(count) - 1) * VerticalSpacingCss) \div 2

HelixHeightCss(i, count) == HelixPair(i) * VerticalSpacingCss - HelixYOffsetCss(count)

HelixTargetsCss(count) ==
    [n \in 1..count |-> Pose(HelixHeightCss(n - 1, count), HelixQuat(n - 1))]

HelixItemCss(i, count) ==
    [i |-> i, strand |-> HelixStrand(i), pair |-> HelixPair(i),
     angle |-> HelixAngle(i, AngleStepCss),
     radius |-> HelixRadius + (IF HelixStrand(i) = 0 THEN -60 ELSE 60),
     y |-> HelixHeightCss(i, count)]

\* Its buildTargets has no reset: the four loops push onto the arrays the
\* earlier calls filled.  Table, sphere and grid are laid out as above.
BuildTargetsCss(prev, count) ==
    [f \in Formations |->
        prev[f] \o (IF f = "helix" THEN HelixTargetsCss(count)
                    ELSE FillTargets(EmptyTargets, count)[f])]

LayoutCss(prev, count) ==
    [f \in Formations |->
        prev[f] \o (IF f = "helix" THEN [n \in 1..count |-> HelixItemCss(n - 1, count)]
                    ELSE Layout(count)[f])]

HelixMetaCss(count) ==
    [radius |-> HelixRadius, totalHeight |-> HelixSegments(count) * VerticalSpacingCss]

(* ----------------------------- tile colours ---------------------------- *)

\* Texts are sequences of one-character strings.  The net fields explored
\* are made of at most MaxParts of these parts.
NetParts ==
    { <<"$">>, <<",">>, <<".">>, <<"-">>, <<"1">>, <<"2">>, <<"5">>,
      <<"0", "0", "0", "0", "0">>, <<"9", "9", "9", "9", "9">> }

RECURSIVE NetTextsOf(_)
NetTextsOf(n) ==
    IF n = 0 THEN { << >> }
    ELSE LET shorter == NetTextsOf(n - 1)
         IN  shorter \cup {t \o p : t \in shorter, p \in NetParts}

NetTexts == NetTextsOf(MaxParts)

DigitChars == {"0", "1", "2", "3", "4", "5", "6", "7", "8", "9"}

DigitOf(c) ==
    CASE c = "0" -> 0 [] c = "1" -> 1 [] c = "2" -> 2 [] c = "3" -> 3
      [] c = "4" -> 4 [] c = "5" -> 5 [] c = "6" -> 6 [] c = "7" -> 7
      [] c = "8" -> 8 [] c = "9" -> 9

\* A JavaScript number as far as the thresholds can tell: NaN, or a sign,
\* the integer part (every integer part from NumCap on is kept as NumCap)
\* and whether a non-zero fraction follows it.
NaN == [nan |-> TRUE, neg |-> FALSE, int |-> 0, frac |-> FALSE]

Num(neg, int, frac) == [nan |-> FALSE, neg |-> neg, int |-> int, frac |-> frac]

\* num < k, num <= k, num > k, num >= k for an integer k >= 0; every
\* comparison with NaN is false.
Less(num, k) ==
    /\ ~num.nan
    /\ IF num.neg THEN k > 0 \/ num.int > 0 \/ num.frac ELSE num.int < k

LessEq(num, k) ==
    /\ ~num.nan
    /\ num.neg \/ num.int < k \/ (num.int = k /\ ~num.frac)

Greater(num, k) == ~num.nan /\ ~LessEq(num, k)

GreaterEq(num, k) == ~num.nan /\ ~Less(num, k)

\* The value of a run of digits.
RECURSIVE IntOf(_, _)
IntOf(digits, acc) ==
    IF digits = << >> THEN acc
    ELSE IntOf(Tail(digits), Min(acc * 10 + DigitOf(Head(digits)), NumCap))

\* How many of the leading characters of a text are digits.
RECURSIVE DigitPrefix(_)
DigitPrefix(text) ==
    IF text = << >> \/ Head(text) \notin DigitChars THEN 0
    ELSE 1 + DigitPrefix(Tail(text))

NonZero(digits) == \E n \in DOMAIN digits : digits[n] # "0"

\* v.replace(/[^0-9.]/g, ""): only digits and dots are kept.
DigitsAndDots(v) == SelectSeq(v, LAMBDA c : c \in DigitChars \cup {"."})

\* Number(text) for a text of digits and dots: 0 for the empty text, NaN
\* for a text with two dots or with a dot and no digit.
ToNumber(text) ==
    LET whole == DigitPrefix(text)
        rest == SubSeq(text, whole + 1, Len(text))
        after == IF rest = << >> THEN << >> ELSE Tail(rest)
    IN  IF text = << >> THEN Num(FALSE, 0, FALSE)
        ELSE IF DigitPrefix(after) # Len(after) \/ whole + Len(after) = 0 THEN NaN
        ELSE Num(FALSE, IntOf(SubSeq(text, 1, whole), 0), NonZero(after))

\* The three-way branch of netColor on num.
NetColorOfNum(num) ==
    IF Less(num, 100000) THEN "red"
    ELSE IF LessEq(num, 200000) THEN "orange"
    ELSE "green"

\* A pickColor whose first test would be value >= 200000.
pickColorFromThreshold(value) ==
    IF GreaterEq(value, 200000) THEN "green"
    ELSE IF GreaterEq(value, 100000) /\ LessEq(value, 200000) THEN "orange"
    ELSE "red"

\* netColor(v) of the WebGL variants.
netColor(v) == NetColorOfNum(ToNumber(DigitsAndDots(v)))

\* pickColor(value) of the DOM variant.
pickColor(value) ==
    IF Greater(value, 200000) THEN "green"
    ELSE IF GreaterEq(value, 100000) /\ LessEq(value, 200000) THEN "orange"
    ELSE "red"

\* parseFloat(text): an optional sign, digits, an optional dot and digits,
\* read from the front for as long as they go; NaN when no digit was read.
ParseFloat(text) ==
    LET neg == text # << >> /\ Head(text) = "-"
        body == IF neg THEN Tail(text) ELSE text
        whole == DigitPrefix(body)
        rest == SubSeq(body, whole + 1, Len(body))
        dotted == rest # << >> /\ Head(rest) = "."
        after == IF dotted THEN Tail(rest) ELSE << >>
        part == SubSeq(after, 1, DigitPrefix(after))
    IN  IF whole + Len(part) = 0 THEN NaN
        ELSE Num(neg, IntOf(SubSeq(body, 1, whole), 0), NonZero(part))

\* parseNetWorth(raw) of the DOM variant: 0 for no text, "$" and ","
\* dropped, parseFloat, and 0 for NaN.
parseNetWorth(raw) ==
    LET cleaned == SelectSeq(raw, LAMBDA c : c \notin {"$", ","})
        n == ParseFloat(cleaned)
    IN  IF raw = << >> \/ n.nan THEN Num(FALSE, 0, FALSE) ELSE n

NoColour == [num |-> NaN, netColor |-> "none", pickOfNum |-> "none",
             worth |-> NaN, pickColor |-> "none", netOfWorth |-> "none"]

(* -------------------------------- state -------------------------------- *)

VARIABLES
    loaded,          \* the Papa.parse complete callback of loadCSV has run
    objects,         \* the live meshes: sequence of poses
    gen,             \* how often buildTiles has replaced the meshes
    targets,         \* the four formations
    helixMeta,       \* window._helixMeta
    layout,          \* the geometry of the targets, item by item
    tweens,          \* TWEEN's registry of live jobs, in creation order
    needsRender,
    forceFullRender,
    lastFrame,
    now,             \* the clock: timestamp of the latest frame
    frame,           \* what the latest renderer.render call drew
    clicks,          \* button clicks so far
    last,            \* the handler that ran last
    built,           \* the counts buildTargets was called with, in order
    batchSeq,        \* transform calls that got past the guard of line 588
    callTime,        \* when the latest of them was made
    origin,          \* the meshes' poses at that moment
    goal,            \* the formation it was given
    interrupted,     \* jobs were live at that moment
    net,             \* the net field of the record a tile was last coloured for
    colour,          \* what the colour helpers made of it
    tilesMeta,       \* per tile: its mesh, hover flag, DOM clone and canvas
    lastHover,       \* the mesh under the pointer, or NoMesh for null
    rasters,         \* the html2canvas calls in flight: a bag of calls
    images,          \* the tile indices with an image conversion under way
                     \* (buildTiles runs once: one conversion per index)
    html2canvasAvailable,
    moves            \* pointer moves so far

vars == <<loaded, objects, gen, targets, helixMeta, layout, tweens, needsRender,
          forceFullRender, lastFrame, now, frame, clicks, last, built,
          batchSeq, callTime, origin, goal, interrupted, net, colour,
          tilesMeta, lastHover, rasters, images, html2canvasAvailable, moves>>

\* The colouring of a record, which no handler of the scene touches.
shown == <<net, colour>>

\* The tiles' metadata and the pointer, which only buildTiles, the pointer
\* and the rasterizations touch.
tiles == <<tilesMeta, lastHover, rasters, images, html2canvasAvailable, moves>>

\* What the latest transform call left behind.
call == <<batchSeq, callTime, origin, goal, interrupted>>

\* Math.random() * 4000 - 2000: the start coordinates explored.
StartPositions == {-1980, 500}

\* Timestamps of the animation frames explored: one 3 ms after the start
\* (inside the stagger of the second tile and inside the 16 ms throttle),
\* then every 600 ms, and one 12 ms after the frame at 600 (inside the
\* throttle again, with the jobs halfway).
TickTimes == {t \in 1..MaxTime : t = 3 \/ t = 612 \/ t % 600 = 0}

\* transform's duration parameter (default) and stagger constants.
Duration == 1200

MaxStagger == 300

PerItemStagger == 6

\* A delay without the cap of maxStagger.
DelayUncapped(i) == i * PerItemStagger

\* delay = Math.min(i * perItemStagger, maxStagger), i counted from 0.
Delay(i) == Min(i * PerItemStagger, MaxStagger)

NoFrame == [time |-> -1, poses |-> << >>]

\* lastHover = null.
NoMesh == [gen |-> 0, idx |-> 0]

Init ==
    /\ loaded = FALSE
    /\ objects = << >>
    /\ gen = 0
    /\ targets = EmptyTargets
    /\ helixMeta = [radius |-> 0, totalHeight |-> 0]
    /\ layout = EmptyLayout
    /\ tweens = << >>
    /\ needsRender = TRUE
    /\ forceFullRender = TRUE
    /\ lastFrame = 0
    /\ now = 0
    /\ frame = NoFrame
    /\ clicks = 0
    /\ last = "init"
    /\ built = << >>
    /\ batchSeq = 0
    /\ callTime = 0
    /\ origin = << >>
    /\ goal = << >>
    /\ interrupted = FALSE
    /\ net = << >>
    /\ colour = NoColour
    /\ tilesMeta = << >>
    /\ lastHover = NoMesh
    /\ rasters = EmptyBag
    /\ images = {}
    /\ html2canvasAvailable = TRUE
    /\ moves = 0

(* ---------------------------- tiles and hover -------------------------- *)

\* tilesMeta.push({dom, canvas, ..., mesh, hover: false, loadedImage: null})
\* after drawTileToCanvas(ctx, p, colour, null, false): dom tells whether
\* the DOM clone has the class hover-effect, canvas whether the canvas
\* shows the hover appearance.
NewMeta(g, i) ==
    [mesh |-> [gen |-> g, idx |-> i], hover |-> FALSE, dom |-> FALSE,
     canvas |-> FALSE, loadedImage |-> FALSE]

\* The metadata buildTiles pushes after clearSceneTiles emptied tilesMeta.
BuildMeta(positions, g) == [n \in 1..Len(positions) |-> NewMeta(g, n)]

\* rasterizeTileToCanvas(index, useHover) on st = [metas, rasters, nr]: the
\* DOM clone gets or loses the class; with html2canvas a call is started,
\* whose snapshot of the clone has that class; without it the canvas is
\* drawn at once and needsRender set.
Rasterize(st, index, useHover) ==
    IF index > Len(st.metas) THEN st
    ELSE LET classed == [st.metas EXCEPT ![index].dom = useHover]
         IN  IF html2canvasAvailable
             THEN [st EXCEPT !.metas = classed,
                             !.rasters = @ (+) SetToBag({[gen |-> classed[index].mesh.gen,
                                                          idx |-> index,
                                                          useHover |-> useHover,
                                                          shot |-> useHover]})]
             ELSE [st EXCEPT !.metas = [classed EXCEPT ![index].canvas = useHover],
                             !.nr = TRUE]

\* A setTileHover that would only ever set the flag, never clear it.
SetTileHoverOnly(st, mesh, isHover) ==
    LET found == {n \in DOMAIN st.metas : st.metas[n].mesh = mesh}
    IN  IF found = {} THEN st
        ELSE LET idx == CHOOSE n \in found : TRUE
             IN  IF isHover THEN [st EXCEPT !.metas[idx].hover = isHover]
                 ELSE st

\* setTileHover(mesh, isHover): nothing for a mesh without metadata or
\* when the flag already has the value.
SetTileHover(st, mesh, isHover) ==
    LET found == {n \in DOMAIN st.metas : st.metas[n].mesh = mesh}
    IN  IF found = {} THEN st
        ELSE LET idx == CHOOSE n \in found : TRUE
             IN  IF st.metas[idx].hover = isHover THEN st
                 ELSE Rasterize([st EXCEPT !.metas[idx].hover = isHover,
                                           !.metas[idx].dom = isHover],
                                idx, isHover)

(* --------------------------- transition engine ------------------------- *)

\* new TWEEN.Tween(obj.position).to(target.position, duration).delay(delay)
\* .start(): the start values are the mesh's current ones; g tells which
\* generation of meshes obj belongs to.
PosJob(i, obj, g, target, duration, batch) ==
    [kind |-> "pos", obj |-> i, gen |-> g, batch |-> batch,
     startTime |-> now + Delay(i - 1), duration |-> duration, started |-> FALSE,
     from |-> obj.pos, to |-> target.pos,
     startQuat |-> NoQuat, targetQuat |-> NoQuat]

\* A quaternion job whose onUpdate would slerp towards the mesh's own
\* orientation instead of the target's.
QuatJobToStart(i, obj, g, target, duration, batch) ==
    [kind |-> "quat", obj |-> i, gen |-> g, batch |-> batch,
     startTime |-> now + Delay(i - 1), duration |-> duration, started |-> FALSE,
     from |-> 0, to |-> EaseUnit,
     startQuat |-> obj.quat, targetQuat |-> obj.quat]

\* A quaternion job that would be started without .delay(delay).
QuatJobUndelayed(i, obj, g, target, duration, batch) ==
    [kind |-> "quat", obj |-> i, gen |-> g, batch |-> batch,
     startTime |-> now, duration |-> duration, started |-> FALSE,
     from |-> 0, to |-> EaseUnit,
     startQuat |-> obj.quat, targetQuat |-> target.quat]

\* new TWEEN.Tween(qTween).to({ t: 1 }, duration).delay(delay).start() with
\* the copies startQuat and targetQuat held by its onUpdate callback.
QuatJob(i, obj, g, target, duration, batch) ==
    [kind |-> "quat", obj |-> i, gen |-> g, batch |-> batch,
     startTime |-> now + Delay(i - 1), duration |-> duration, started |-> FALSE,
     from |-> 0, to |-> EaseUnit,
     startQuat |-> obj.quat, targetQuat |-> target.quat]

\* A forEach that would give a mesh beyond the end of the formation the
\* target of an earlier index instead of skipping it.
RECURSIVE NewJobsWrapping(_, _, _, _, _, _)
NewJobsWrapping(i, objs, g, targetsArray, duration, batch) ==
    IF i > Len(objs) \/ Len(targetsArray) = 0 THEN << >>
    ELSE LET target == targetsArray[((i - 1) % Len(targetsArray)) + 1]
         IN  << PosJob(i, objs[i], g, target, duration, batch),
                QuatJob(i, objs[i], g, target, duration, batch) >>
             \o NewJobsWrapping(i + 1, objs, g, targetsArray, duration, batch)

\* objects.forEach of transform: the jobs created for meshes i..Len(objs);
\* a mesh without a target at its index is skipped.
RECURSIVE NewJobs(_, _, _, _, _, _)
NewJobs(i, objs, g, targetsArray, duration, batch) ==
    IF i > Len(objs) THEN << >>
    ELSE (IF i > Len(targetsArray) THEN << >>
          ELSE << PosJob(i, objs[i], g, targetsArray[i], duration, batch),
                  QuatJob(i, objs[i], g, targetsArray[i], duration, batch) >>)
         \o NewJobs(i + 1, objs, g, targetsArray, duration, batch)

\* transform without TWEEN.removeAll() (as in the variants that stack
\* tweens): the new jobs are put behind the live ones.
ScheduledKeepingOld(live, objs, g, targetsArray, duration, batch) ==
    live \o NewJobs(1, objs, g, targetsArray, duration, batch)

\* The registry after TWEEN.removeAll() and the forEach of transform.
Scheduled(live, objs, g, targetsArray, duration, batch) ==
    NewJobs(1, objs, g, targetsArray, duration, batch)

\* A transform that would call TWEEN.removeAll() and set needsRender before
\* it looks at objects.length.
TransformRemoveAllFirst(objs, g, nr, targetsArray, duration) ==
    IF Len(objs) = 0
    THEN /\ tweens' = << >>
         /\ needsRender' = TRUE
         /\ UNCHANGED call
    ELSE /\ tweens' = Scheduled(tweens, objs, g, targetsArray, duration, batchSeq + 1)
         /\ needsRender' = TRUE
         /\ batchSeq' = batchSeq + 1
         /\ callTime' = now
         /\ origin' = objs
         /\ goal' = targetsArray
         /\ interrupted' = (tweens # << >>)

\* transform(targetsArray, duration) called when the meshes are objs (of
\* generation g) and needsRender is nr: nothing at all when there is no
\* mesh.
Transform(objs, g, nr, targetsArray, duration) ==
    IF Len(objs) = 0
    THEN /\ needsRender' = nr
         /\ UNCHANGED <<tweens, call>>
    ELSE /\ tweens' = Scheduled(tweens, objs, g, targetsArray, duration, batchSeq + 1)
         /\ needsRender' = TRUE
         /\ batchSeq' = batchSeq + 1
         /\ callTime' = now
         /\ origin' = objs
         /\ goal' = targetsArray
         /\ interrupted' = (tweens # << >>)

\* Tween.update(time) of job j on the meshes objs: the possible outcomes
\* [objs, keep]: the meshes afterwards and the job if it stays in the
\* registry.  A job of an earlier generation writes to a mesh that
\* buildTiles removed from objects.
UpdateJob(j, objs, g, time) ==
    IF time < j.startTime
    THEN {[objs |-> objs, keep |-> <<j>>]}
    ELSE LET elapsed == Elapsed(time, j.startTime, j.duration)
             value == CubicInOut(elapsed)
             keep == IF elapsed = EaseUnit THEN << >>
                     ELSE << [j EXCEPT !.started = TRUE] >>
             mine == j.gen = g /\ j.obj <= Len(objs)
         IN  IF j.kind = "pos"
             THEN {[objs |-> IF mine
                             THEN [objs EXCEPT ![j.obj].pos = Lerp(j.from, j.to, value)]
                             ELSE objs,
                    keep |-> keep]}
             ELSE {[objs |-> IF mine
                             THEN [objs EXCEPT ![j.obj].quat = q]
                             ELSE objs,
                    keep |-> keep] :
                   q \in Slerp(j.startQuat, j.targetQuat, Lerp(j.from, j.to, value))}

\* A TWEEN.update that would keep a job in the registry whatever its
\* update returns.
RECURSIVE UpdateAllKeeping(_, _, _, _, _, _)
UpdateAllKeeping(n, live, objs, g, time, acc) ==
    IF n > Len(live)
    THEN {[objs |-> objs, tweens |-> acc]}
    ELSE UNION { UpdateAllKeeping(n + 1, live, o.objs, g, time,
                     acc \o (IF time < live[n].startTime THEN << live[n] >>
                             ELSE << [live[n] EXCEPT !.started = TRUE] >>)) :
                 o \in UpdateJob(live[n], objs, g, time) }

\* TWEEN.update(time): every job of the registry, in creation order, with
\* the one timestamp; a job whose update returns false is deleted.
RECURSIVE UpdateAll(_, _, _, _, _, _)
UpdateAll(n, live, objs, g, time, acc) ==
    IF n > Len(live)
    THEN {[objs |-> objs, tweens |-> acc]}
    ELSE UNION { UpdateAll(n + 1, live, o.objs, g, time, acc \o o.keep) :
                 o \in UpdateJob(live[n], objs, g, time) }

\* A render that would come before TWEEN.update in the tick.
DrawnBefore(before, after) == before

\* What renderer.render(scene, camera) draws in animate: the meshes as they
\* are after TWEEN.update, not as they were before it.
Drawn(before, after) == after

\* buildTiles that would leave the last record without a mesh.
BuildTilesDroppingLast(positions) ==
    [n \in 1..(Len(positions) - 1) |-> Pose(positions[n], Identity)]

\* buildTiles(data): clearSceneTiles, then one mesh per record at a random
\* position with the identity orientation.
BuildTiles(positions) == [n \in 1..Len(positions) |-> Pose(positions[n], Identity)]

(* ------------------------------- actions ------------------------------- *)

\* An animate that would call TWEEN.update only in a tick that is due to
\* render, inside the delta > 16 branch.
AnimateWhenDue(time) ==
    /\ time > now
    /\ LET delta == time - lastFrame
           ran == tweens # << >> /\ delta > 16
           outs == IF ran
                   THEN UpdateAll(1, tweens, objects, gen, time, << >>)
                   ELSE {[objs |-> objects, tweens |-> tweens]}
           nr == ran \/ needsRender
       IN  \E o \in outs :
             /\ objects' = o.objs
             /\ tweens' = o.tweens
             /\ IF delta > 16
                THEN /\ lastFrame' = time
                     /\ IF nr \/ forceFullRender
                        THEN /\ frame' = [time |-> time, poses |-> Drawn(objects, o.objs)]
                             /\ needsRender' = FALSE
                             /\ forceFullRender' = FALSE
                        ELSE /\ needsRender' = nr
                             /\ UNCHANGED <<frame, forceFullRender>>
                ELSE /\ needsRender' = nr
                     /\ UNCHANGED <<lastFrame, frame, forceFullRender>>
    /\ now' = time
    /\ last' = "animate"
    /\ UNCHANGED <<shown, tiles>>
    /\ UNCHANGED <<loaded, gen, targets, helixMeta, layout, clicks, built, call>>

\* An animate that would clear needsRender in a throttled tick too.
AnimateDroppingFlag(time, moved) ==
    /\ time > now
    /\ LET delta == time - lastFrame
           ran == tweens # << >>
           outs == IF ran
                   THEN UpdateAll(1, tweens, objects, gen, time, << >>)
                   ELSE {[objs |-> objects, tweens |-> tweens]}
           nr == ran \/ needsRender \/ moved
       IN  \E o \in outs :
             /\ objects' = o.objs
             /\ tweens' = o.tweens
             /\ IF delta > 16
                THEN /\ lastFrame' = time
                     /\ IF nr \/ forceFullRender
                        THEN /\ frame' = [time |-> time, poses |-> Drawn(objects, o.objs)]
                             /\ needsRender' = FALSE
                             /\ forceFullRender' = FALSE
                        ELSE /\ needsRender' = nr
                             /\ UNCHANGED <<frame, forceFullRender>>
                ELSE /\ needsRender' = FALSE
                     /\ UNCHANGED <<lastFrame, frame, forceFullRender>>
    /\ now' = time
    /\ last' = "animate"
    /\ UNCHANGED <<shown, tiles>>
    /\ UNCHANGED <<loaded, gen, targets, helixMeta, layout, clicks, built, call>>

\* requestAnimationFrame callback animate(time); moved tells whether
\* controls.update() found the camera moved and fired 'change', whose
\* listener sets needsRender.
AnimateWith(time, moved) ==
    /\ time > now
    /\ LET delta == time - lastFrame
           ran == tweens # << >>
           outs == IF ran
                   THEN UpdateAll(1, tweens, objects, gen, time, << >>)
                   ELSE {[objs |-> objects, tweens |-> tweens]}
           nr == ran \/ needsRender \/ moved
       IN  \E o \in outs :
             /\ objects' = o.objs
             /\ tweens' = o.tweens
             /\ IF delta > 16
                THEN /\ lastFrame' = time
                     /\ IF nr \/ forceFullRender
                        THEN /\ frame' = [time |-> time, poses |-> Drawn(objects, o.objs)]
                             /\ needsRender' = FALSE
                             /\ forceFullRender' = FALSE
                        ELSE /\ needsRender' = nr
                             /\ UNCHANGED <<frame, forceFullRender>>
                ELSE /\ needsRender' = nr
                     /\ UNCHANGED <<lastFrame, frame, forceFullRender>>
    /\ now' = time
    /\ last' = "animate"
    /\ UNCHANGED <<shown, tiles>>
    /\ UNCHANGED <<loaded, gen, targets, helixMeta, layout, clicks, built, call>>

\* animate(time) with the camera at rest.
Animate(time) == AnimateWith(time, FALSE)

\* animate(time) with the camera moving.
AnimateMoved(time) == AnimateWith(time, TRUE)

\* The complete callback of Papa.parse in loadCSV: buildTiles(parsed),
\* buildTargets(parsed.length), transform(targets.table).
LoadComplete(positions) ==
    /\ ~loaded
    /\ loaded' = TRUE
    /\ objects' = BuildTiles(positions)
    /\ gen' = gen + 1
    /\ targets' = BuildTargets(targets, Len(positions))
    /\ helixMeta' = HelixMeta(Len(positions))
    /\ layout' = Layout(Len(positions))
    /\ built' = Append(built, Len(positions))
    /\ Transform(objects', gen', TRUE, targets'.table, Duration)
    /\ last' = "load"
    /\ tilesMeta' = BuildMeta(positions, gen')
    /\ images' = images \cup 1..Len(positions)
    /\ UNCHANGED <<shown, lastHover, rasters, html2canvasAvailable, moves>>
    /\ UNCHANGED <<forceFullRender, lastFrame, now, frame, clicks>>

\* A click whose transform would put every mesh on its target at once.
ClickSnapping(f) ==
    /\ clicks < MaxClicks
    /\ clicks' = clicks + 1
    /\ objects' = [i \in DOMAIN objects |->
                      IF i <= Len(targets[f]) THEN targets[f][i] ELSE objects[i]]
    /\ Transform(objects, gen, needsRender, targets[f], Duration)
    /\ last' = "click"
    /\ UNCHANGED <<shown, tiles>>
    /\ UNCHANGED <<loaded, gen, targets, helixMeta, layout,
                   forceFullRender, lastFrame, now, frame, built>>

\* onclick of btn-table, btn-sphere, btn-helix, btn-grid.
Click(f) ==
    /\ clicks < MaxClicks
    /\ clicks' = clicks + 1
    /\ Transform(objects, gen, needsRender, targets[f], Duration)
    /\ last' = "click"
    /\ UNCHANGED <<shown, tiles>>
    /\ UNCHANGED <<loaded, objects, gen, targets, helixMeta, layout,
                   forceFullRender, lastFrame, now, frame, built>>

\* Sequences of start coordinates of 0..MaxCount records.
StartSeqs == UNION {[1..n -> StartPositions] : n \in 0..MaxCount}

Next ==
    \/ \E positions \in StartSeqs : LoadComplete(positions)
    \/ \E f \in Formations : Click(f)
    \/ \E time \in TickTimes : Animate(time)

Spec == Init /\ [][Next]_vars

(* ------------------------ the camera controls -------------------------- *)

\* The 'start' and 'end' listeners of the controls.
ControlsStartEnd ==
    /\ forceFullRender' = TRUE
    /\ last' = "controls"
    /\ UNCHANGED <<shown, tiles>>
    /\ UNCHANGED <<loaded, objects, gen, targets, helixMeta, layout, tweens,
                   needsRender, lastFrame, now, frame, clicks, built, call>>

\* The 'change' listener of the controls when an event handler of the
\* controls fires it, and onWindowResize.
ControlsChange ==
    /\ needsRender' = TRUE
    /\ last' = "controls"
    /\ UNCHANGED <<shown, tiles>>
    /\ UNCHANGED <<loaded, objects, gen, targets, helixMeta, layout, tweens,
                   forceFullRender, lastFrame, now, frame, clicks, built, call>>

\* Start coordinates and frame timestamps explored with the controls: a
\* frame every 1200 ms and one 12 ms after it, inside the throttle, in
\* which the staggered jobs of a transition end.
RenderStartSeqs == {[i \in 1..n |-> -1980] : n \in {0, 1, MaxCount}}

RenderTickTimes == {t \in 1..MaxTime : t % 1200 = 0 \/ t % 1200 = 12}

NextRender ==
    \/ \E positions \in RenderStartSeqs : LoadComplete(positions)
    \/ \E f \in Formations : Click(f)
    \/ \E time \in RenderTickTimes : Animate(time)
    \/ \E time \in RenderTickTimes : AnimateMoved(time)
    \/ ControlsStartEnd
    \/ ControlsChange

SpecRender == Init /\ [][NextRender]_vars

(* ----------------- the functions called in any order ------------------- *)

\* buildTiles(data) on its own: the meshes are replaced (jobs of the old
\* ones stay in the registry) and needsRender is set.
CallBuildTiles(positions) ==
    /\ gen < MaxLoads
    /\ objects' = BuildTiles(positions)
    /\ gen' = gen + 1
    /\ needsRender' = TRUE
    /\ origin' = << >>
    /\ goal' = << >>
    /\ last' = "buildTiles"
    /\ tilesMeta' = BuildMeta(positions, gen')
    /\ images' = images \cup 1..Len(positions)
    /\ UNCHANGED <<shown, lastHover, rasters, html2canvasAvailable, moves>>
    /\ UNCHANGED <<loaded, targets, helixMeta, layout, tweens, forceFullRender,
                   lastFrame, now, frame, clicks, built, batchSeq, callTime,
                   interrupted>>

\* A buildTargets that would also place the live meshes on the table.
CallBuildTargetsPlacing(count) ==
    /\ targets' = BuildTargets(targets, count)
    /\ helixMeta' = HelixMeta(count)
    /\ layout' = Layout(count)
    /\ built' = Append(built, count)
    /\ objects' = [i \in DOMAIN objects |->
                      IF i <= count THEN targets'.table[i] ELSE objects[i]]
    /\ last' = "buildTargets"
    /\ UNCHANGED <<shown, tiles>>
    /\ UNCHANGED <<loaded, gen, tweens, needsRender, forceFullRender,
                   lastFrame, now, frame, clicks, call>>

\* buildTargets(count) on its own.
CallBuildTargets(count) ==
    /\ targets' = BuildTargets(targets, count)
    /\ helixMeta' = HelixMeta(count)
    /\ layout' = Layout(count)
    /\ built' = Append(built, count)
    /\ last' = "buildTargets"
    /\ UNCHANGED <<shown, tiles>>
    /\ UNCHANGED <<loaded, objects, gen, tweens, needsRender, forceFullRender,
                   lastFrame, now, frame, clicks, call>>

\* Start coordinates and frame timestamps explored there.
ApiStartSeqs == {[i \in 1..n |-> -1980] : n \in {0, 1, MaxCount}}

ApiTickTimes == {t \in 1..MaxTime : t % 1200 = 600}

ApiFormations == {"table", "sphere"}

\* Here buildTargets is called at most once per buildTiles, with any count.
NextApi ==
    \/ \E positions \in ApiStartSeqs : CallBuildTiles(positions)
    \/ \E count \in 0..MaxCount : Len(built) < gen /\ CallBuildTargets(count)
    \/ \E f \in ApiFormations : Click(f)
    \/ \E time \in ApiTickTimes : Animate(time)

SpecApi == Init /\ [][NextApi]_vars

\* The layout generator on its own: buildTargets called again and again.
NextGen ==
    \E count \in 0..MaxItems : Len(built) < MaxBuilds /\ CallBuildTargets(count)

SpecGen == Init /\ [][NextGen]_vars

(* ------------------ the generator of the CSS3D variant ---------------- *)

\* buildTargets(count) of the CSS3D variant on its own.
CallBuildTargetsCss(count) ==
    /\ targets' = BuildTargetsCss(targets, count)
    /\ helixMeta' = HelixMetaCss(count)
    /\ layout' = LayoutCss(layout, count)
    /\ built' = Append(built, count)
    /\ last' = "buildTargetsCss"
    /\ UNCHANGED <<shown, tiles>>
    /\ UNCHANGED <<loaded, objects, gen, tweens, needsRender, forceFullRender,
                   lastFrame, now, frame, clicks, call>>

NextCss ==
    \E count \in 0..MaxItems : Len(built) < MaxBuilds /\ CallBuildTargetsCss(count)

SpecCss == Init /\ [][NextCss]_vars

(* --------------- the CSS3D variant: transform and animate -------------- *)

\* Tween._updateProperties on the three Euler angles of a rotation, start +
\* (end - start) * value each: the start itself when value is 0 or when the
\* end is the start, the end up to rounding when value is 1.
EulerLerp(qa, qb, value) ==
    IF value = 0 \/ qa = qb THEN {qa}
    ELSE IF value = EaseUnit THEN {qb, Near(qb)}
    ELSE {[k |-> "mid", a |-> qa, b |-> qb, t |-> value]}

\* new TWEEN.Tween({ t: 0 }).to({ t: 1 }, 1000).onUpdate(() => {}).start().
IdleJob(batch) ==
    [kind |-> "none", obj |-> 0, gen |-> gen, batch |-> batch,
     startTime |-> now, duration |-> 1000, started |-> FALSE,
     from |-> 0, to |-> EaseUnit, startQuat |-> NoQuat, targetQuat |-> NoQuat]

\* new TWEEN.Tween(obj).to({ position: ..., rotation: ... }, 1500)
\* .easing(TWEEN.Easing.Cubic.InOut).start(): one job for both.
ObjJob(i, obj, target, batch) ==
    [kind |-> "obj", obj |-> i, gen |-> gen, batch |-> batch,
     startTime |-> now, duration |-> 1500, started |-> FALSE,
     from |-> obj.pos, to |-> target.pos,
     startQuat |-> obj.quat, targetQuat |-> target.quat]

\* objects.forEach of the variant's transform; if (!target) return.
RECURSIVE NewJobsCss(_, _, _, _)
NewJobsCss(i, objs, targetsArray, batch) ==
    IF i > Len(objs) THEN << >>
    ELSE (IF i > Len(targetsArray) THEN << >>
          ELSE << ObjJob(i, objs[i], targetsArray[i], batch) >>)
         \o NewJobsCss(i + 1, objs, targetsArray, batch)

\* A transform that would call TWEEN.removeAll() first, as app.js does.
ScheduledCssClearing(live, objs, targetsArray, batch) ==
    << IdleJob(batch) >> \o NewJobsCss(1, objs, targetsArray, batch)

\* The registry after the variant's transform: it has no TWEEN.removeAll(),
\* so its jobs are added to the live ones.
ScheduledCss(live, objs, targetsArray, batch) ==
    live \o << IdleJob(batch) >> \o NewJobsCss(1, objs, targetsArray, batch)

\* transform(targetsArray) of the variant.
TransformCss(objs, targetsArray) ==
    /\ tweens' = ScheduledCss(tweens, objs, targetsArray, batchSeq + 1)
    /\ batchSeq' = batchSeq + 1
    /\ callTime' = now
    /\ origin' = objs
    /\ goal' = targetsArray
    /\ interrupted' = (tweens # << >>)

\* Tween.update(time) of a job of the variant.
UpdateJobCss(j, objs, time) ==
    IF time < j.startTime
    THEN {[objs |-> objs, keep |-> <<j>>]}
    ELSE LET elapsed == Elapsed(time, j.startTime, j.duration)
             value == CubicInOut(elapsed)
             keep == IF elapsed = EaseUnit THEN << >>
                     ELSE << [j EXCEPT !.started = TRUE] >>
         IN  IF j.kind = "none"
             THEN {[objs |-> objs, keep |-> keep]}
             ELSE {[objs |-> [objs EXCEPT ![j.obj] =
                                 Pose(Lerp(j.from, j.to, value), q)],
                    keep |-> keep] :
                   q \in EulerLerp(j.startQuat, j.targetQuat, value)}

\* TWEEN.update() of the variant: every job of the registry in creation
\* order.
RECURSIVE UpdateAllCss(_, _, _, _, _)
UpdateAllCss(n, live, objs, time, acc) ==
    IF n > Len(live)
    THEN {[objs |-> objs, tweens |-> acc]}
    ELSE UNION { UpdateAllCss(n + 1, live, o.objs, time, acc \o o.keep) :
                 o \in UpdateJobCss(live[n], objs, time) }

\* animate() of the variant: TWEEN.update(), controls.update(),
\* renderer.render(scene, camera) in every frame.
AnimateCss(time) ==
    /\ time > now
    /\ \E o \in UpdateAllCss(1, tweens, objects, time, << >>) :
         /\ objects' = o.objs
         /\ tweens' = o.tweens
         /\ frame' = [time |-> time, poses |-> o.objs]
    /\ now' = time
    /\ last' = "animate"
    /\ UNCHANGED <<shown, tiles>>
    /\ UNCHANGED <<loaded, gen, targets, helixMeta, layout, needsRender,
                   forceFullRender, lastFrame, clicks, built, call>>

\* The complete callback of the variant's loadCSV: buildTiles pushes one
\* object per record, then buildTargets and transform(targets.table).
LoadCompleteCss(positions) ==
    /\ ~loaded
    /\ loaded' = TRUE
    /\ objects' = objects \o BuildTiles(positions)
    /\ gen' = gen + 1
    /\ targets' = BuildTargetsCss(targets, Len(positions))
    /\ helixMeta' = HelixMetaCss(Len(positions))
    /\ layout' = LayoutCss(layout, Len(positions))
    /\ built' = Append(built, Len(positions))
    /\ TransformCss(objects', targets'.table)
    /\ last' = "load"
    /\ UNCHANGED <<shown, tiles>>
    /\ UNCHANGED <<needsRender, forceFullRender, lastFrame, now, frame, clicks>>

\* onclick of the variant's four buttons.
ClickCss(f) ==
    /\ clicks < MaxClicks
    /\ clicks' = clicks + 1
    /\ TransformCss(objects, targets[f])
    /\ last' = "click"
    /\ UNCHANGED <<shown, tiles>>
    /\ UNCHANGED <<loaded, objects, gen, targets, helixMeta, layout, needsRender,
                   forceFullRender, lastFrame, now, frame, built>>

\* Timestamps of the variant's frames: every 500 ms.
CssTickTimes == {t \in 1..MaxTime : t % 500 = 0}

NextVariant ==
    \/ \E positions \in ApiStartSeqs : LoadCompleteCss(positions)
    \/ \E f \in ApiFormations : ClickCss(f)
    \/ \E time \in CssTickTimes : AnimateCss(time)

SpecVariant == Init /\ [][NextVariant]_vars

(* --------------------------- pointer and hover ------------------------- *)

\* The window with or without html2canvas, nothing loaded yet.
InitHover ==
    /\ loaded = FALSE
    /\ objects = << >>
    /\ gen = 0
    /\ targets = EmptyTargets
    /\ helixMeta = [radius |-> 0, totalHeight |-> 0]
    /\ layout = EmptyLayout
    /\ tweens = << >>
    /\ needsRender = TRUE
    /\ forceFullRender = TRUE
    /\ lastFrame = 0
    /\ now = 0
    /\ frame = NoFrame
    /\ clicks = 0
    /\ last = "init"
    /\ built = << >>
    /\ batchSeq = 0
    /\ callTime = 0
    /\ origin = << >>
    /\ goal = << >>
    /\ interrupted = FALSE
    /\ net = << >>
    /\ colour = NoColour
    /\ tilesMeta = << >>
    /\ lastHover = NoMesh
    /\ rasters = EmptyBag
    /\ images = {}
    /\ html2canvasAvailable \in BOOLEAN
    /\ moves = 0

\* onPointerMove(event) when the ray hits mesh number hit of objects first,
\* or nothing for hit = 0.
OnPointerMove(hit) ==
    /\ moves < MaxMoves
    /\ moves' = moves + 1
    /\ LET st == [metas |-> tilesMeta, rasters |-> rasters, nr |-> needsRender]
           left == IF lastHover # NoMesh THEN SetTileHover(st, lastHover, FALSE)
                   ELSE st
           mesh == [gen |-> gen, idx |-> hit]
           out == IF hit > 0
                  THEN IF lastHover # mesh THEN SetTileHover(left, mesh, TRUE) ELSE st
                  ELSE left
       IN  /\ tilesMeta' = out.metas
           /\ rasters' = out.rasters
           /\ needsRender' = out.nr
           /\ lastHover' = IF hit > 0 THEN mesh ELSE NoMesh
    /\ last' = IF hit > 0 THEN "hit" ELSE "miss"
    /\ UNCHANGED shown
    /\ UNCHANGED <<loaded, objects, gen, targets, helixMeta, layout, tweens,
                   forceFullRender, lastFrame, now, frame, clicks, built, call,
                   images, html2canvasAvailable>>

\* The html2canvas call r settles.  how = "shot": it resolves with
\* the clone as it was when the call was made; how = "now": it resolves
\* with the clone as it is by now; how = "failed": it rejects, or drawImage
\* throws, and drawTileToCanvas draws with the call's own useHover.  The
\* canvas is the one of the metadata the call was made for.
RasterDone(r, how) ==
    /\ BagIn(r, rasters)
    /\ LET live == r.idx <= Len(tilesMeta) /\ tilesMeta[r.idx].mesh.gen = r.gen
           drawn == CASE how = "shot" -> r.shot
                      [] how = "now" -> IF live THEN tilesMeta[r.idx].dom ELSE r.shot
                      [] how = "failed" -> r.useHover
       IN  tilesMeta' = IF live THEN [tilesMeta EXCEPT ![r.idx].canvas = drawn]
                        ELSE tilesMeta
    /\ rasters' = rasters (-) SetToBag({r})
    /\ needsRender' = TRUE
    /\ last' = "raster"
    /\ UNCHANGED shown
    /\ UNCHANGED <<loaded, objects, gen, targets, helixMeta, layout, tweens,
                   forceFullRender, lastFrame, now, frame, clicks, built, call,
                   lastHover, images, html2canvasAvailable, moves>>

\* An image conversion of tile i ends: img.onload (ok) stores the
\* image, and every way it can end calls rasterizeTileToCanvas(i,
\* tilesMeta[i].hover || false).  tilesMeta[i] of a tile that is no longer
\* there throws.
ImageDone(i, ok) ==
    /\ i \in images
    /\ LET st == [metas |-> IF ok /\ i <= Len(tilesMeta)
                            THEN [tilesMeta EXCEPT ![i].loadedImage = TRUE]
                            ELSE tilesMeta,
                  rasters |-> rasters, nr |-> needsRender]
           out == IF i <= Len(tilesMeta) THEN Rasterize(st, i, tilesMeta[i].hover)
                  ELSE st
       IN  /\ tilesMeta' = out.metas
           /\ rasters' = out.rasters
           /\ needsRender' = out.nr
    /\ images' = images \ {i}
    /\ last' = "image"
    /\ UNCHANGED shown
    /\ UNCHANGED <<loaded, objects, gen, targets, helixMeta, layout, tweens,
                   forceFullRender, lastFrame, now, frame, clicks, built, call,
                   lastHover, html2canvasAvailable, moves>>

NextHover ==
    \/ \E positions \in RenderStartSeqs : LoadComplete(positions)
    \/ \E hit \in 0..Len(objects) : OnPointerMove(hit)
    \/ \E r \in BagToSet(rasters), how \in {"shot", "now", "failed"} : RasterDone(r, how)
    \/ \E i \in images, ok \in BOOLEAN : ImageDone(i, ok)

SpecHover == InitHover /\ [][NextHover]_vars

(* --------------------- more than a table's worth ----------------------- *)

\* buildTargets for the counts around 200.
NextTable ==
    \E count \in TableCounts : Len(built) < MaxBuilds /\ CallBuildTargets(count)

SpecTable == Init /\ [][NextTable]_vars

(* ------------------------ many tiles, no frames ------------------------ *)

\* Loads of 0..MaxTiles records, all starting at the same coordinate, and
\* the buttons: what buildTargets lays out and what transform schedules.
WideStartSeqs == {[i \in 1..n |-> 500] : n \in 0..MaxTiles}

NextWide ==
    \/ \E positions \in WideStartSeqs : LoadComplete(positions)
    \/ \E f \in Formations : Click(f)

SpecWide == Init /\ [][NextWide]_vars

(* ------------------------- colouring on its own ------------------------ *)

\* A record whose net field is one of the texts explored, nothing built yet.
InitColour ==
    /\ loaded = FALSE
    /\ objects = << >>
    /\ gen = 0
    /\ targets = EmptyTargets
    /\ helixMeta = [radius |-> 0, totalHeight |-> 0]
    /\ layout = EmptyLayout
    /\ tweens = << >>
    /\ needsRender = TRUE
    /\ forceFullRender = TRUE
    /\ lastFrame = 0
    /\ now = 0
    /\ frame = NoFrame
    /\ clicks = 0
    /\ last = "init"
    /\ built = << >>
    /\ batchSeq = 0
    /\ callTime = 0
    /\ origin = << >>
    /\ goal = << >>
    /\ interrupted = FALSE
    /\ net \in NetTexts
    /\ colour = NoColour
    /\ tilesMeta = << >>
    /\ lastHover = NoMesh
    /\ rasters = EmptyBag
    /\ images = {}
    /\ html2canvasAvailable = TRUE
    /\ moves = 0

\* The record with net field v is coloured: by netColor as buildTiles does
\* it, and by pickColor(parseNetWorth(v)) as the DOM variant does it; each
\* helper's branch is also taken on the number the other one works on.
ColourTile(v) ==
    /\ colour = NoColour
    /\ net' = v
    /\ colour' = LET num == ToNumber(DigitsAndDots(v))
                     worth == parseNetWorth(v)
                 IN  [num |-> num, netColor |-> netColor(v),
                      pickOfNum |-> pickColor(num),
                      worth |-> worth, pickColor |-> pickColor(worth),
                      netOfWorth |-> NetColorOfNum(worth)]
    /\ last' = "colour"
    /\ UNCHANGED <<loaded, objects, gen, targets, helixMeta, layout, tweens,
                   needsRender, forceFullRender, lastFrame, now, frame,
                   clicks, built, call, tiles>>

NextColour == ColourTile(net)

SpecColour == InitColour /\ [][NextColour]_vars

(* ------------------------------- claims -------------------------------- *)

\* Indices that have both a mesh and a target in the latest transform call.
Overlap == 1..Min(Len(objects), Len(goal))

\* The live jobs of mesh i.
JobsOf(i) == {a \in DOMAIN tweens : tweens[a].obj = i /\ tweens[a].gen = gen}

\* C1: a transform call made while jobs of an earlier call are pending or
\* running discards all of them before it schedules its own, so in no state
\* (hence at no animate tick) does a mesh have a job of the old transition
\* live beside a job of the new one: every live job is of the latest call.
C1_OnlyLatestBatchLive ==
    /\ \A a \in DOMAIN tweens : tweens[a].batch = batchSeq
    /\ \A a, b \in DOMAIN tweens :
         tweens[a].obj = tweens[b].obj => tweens[a].batch = tweens[b].batch

\* A tick has run on the jobs of a transform call that interrupted another.
C1_Witness ==
    /\ interrupted
    /\ batchSeq >= 2
    /\ last = "animate"
    /\ \E a \in DOMAIN tweens : tweens[a].started

\* The largest distance between end and the floating-point value of
\* start + (end - start): one unit in the last place of the larger of the
\* difference and the end.
LerpSlack(start, end) == Max(Ulp(FSub(end, start)), Ulp(end))

\* The latest transform call was made while jobs were live, and all of its
\* jobs have finished.
InterruptingCallDone == interrupted /\ tweens = << >>

DueTime(i) == callTime + Delay(i - 1) + Duration

LastCount == built[Len(built)]

\* C4: after buildTargets(count) each of targets.table, targets.sphere,
\* targets.helix and targets.grid has exactly count elements, also when
\* buildTargets was called before with another count.
C4_FourArraysOfCount ==
    built # << >> => \A f \in Formations : Len(targets[f]) = LastCount

\* buildTargets has run twice, with two different counts above zero.
C4_Witness ==
    /\ Len(built) = 2
    /\ built[1] > 0
    /\ built[2] > 0
    /\ built[1] # built[2]
    /\ last = "buildTargets"

\* C5: in every state in which transform can be invoked (before the load,
\* when there are no meshes and no targets, and after the load callback has
\* run), each formation has as many targets as there are meshes.
C5_FormationsMatchObjects ==
    \A f \in Formations : Len(targets[f]) = Len(objects)

\* A button was clicked after a load of MaxCount records.
C5_Witness ==
    /\ loaded
    /\ Len(objects) = MaxCount
    /\ last = "click"
    /\ tweens # << >>

\* C6: when the formation given to transform and the meshes differ in
\* length, jobs exist only for the indices below both lengths, each such
\* index gets its two jobs, and a mesh without a target at its index gets
\* no job and keeps the pose it had when transform was called.
C6_JobsOnlyWhereBoth ==
    /\ \A a \in DOMAIN tweens : tweens[a].gen = gen => tweens[a].obj \in Overlap
    /\ (last = "click" /\ origin # << >>) =>
           \A i \in Overlap : Cardinality(JobsOf(i)) = 2
    /\ origin # << >> =>
           \A i \in 1..Len(objects) :
               i > Len(goal) => JobsOf(i) = {} /\ objects[i] = origin[i]

\* A tick has moved a mesh that has a target while another mesh is beyond
\* the end of the formation.
C6_Witness ==
    /\ last = "animate"
    /\ origin # << >>
    /\ Len(goal) >= 1
    /\ Len(objects) > Len(goal)
    /\ \E i \in Overlap : objects[i] # origin[i]

\* C7: buildTargets(0) leaves four empty formations, and a transform called
\* while there is no mesh does nothing: it creates no job, leaves the live
\* jobs in the registry (it returns before TWEEN.removeAll()) and leaves
\* needsRender as it was.
C7_EmptyIsNoOp ==
    [][ /\ (last' = "buildTargets" /\ built' = Append(built, 0))
            => targets' = EmptyTargets
        /\ (clicks' = clicks + 1 /\ Len(objects) = 0)
            => UNCHANGED <<tweens, needsRender, objects, targets, call>> ]_vars

\* A button was clicked when the meshes had been cleared, buildTargets(0)
\* had run, jobs of the cleared meshes were still live and needsRender was
\* false.
C7_Witness ==
    /\ last = "click"
    /\ Len(objects) = 0
    /\ built # << >>
    /\ LastCount = 0
    /\ targets = EmptyTargets
    /\ tweens # << >>
    /\ ~needsRender

\* Two registry entries are the same job.
SameJob(j, k) == j.batch = k.batch /\ j.obj = k.obj /\ j.kind = k.kind /\ j.gen = k.gen

\* The entries of the registry after a step that are job j.
After(j) == {b \in DOMAIN tweens' : SameJob(j, tweens'[b])}

\* C8: in every step, a live job either stays (Pending stays Pending or
\* becomes Running, and only in a tick whose timestamp has reached its
\* start; Running stays Running; never past its end), or leaves the
\* registry; it leaves only in a tick whose timestamp has reached its end
\* (Done) or in a transform call that passes its guard.  A job enters the
\* registry only in such a call, as Pending.  A pose changes only in a tick
\* and only for a mesh that has a job in the registry whose start the
\* timestamp has reached, so a removed job changes no pose.
C8_JobLifecycle ==
    [][ /\ \A a \in DOMAIN tweens :
             LET j == tweens[a]
             IN  IF After(j) # {}
                 THEN \A b \in After(j) :
                        /\ j.started => tweens'[b].started
                        /\ tweens'[b].started =>
                             j.started \/ (last' = "animate" /\ now' >= j.startTime)
                        /\ last' = "animate" =>
                             /\ now' < j.startTime + j.duration
                             /\ tweens'[b].started = (now' >= j.startTime)
                 ELSE \/ last' = "animate" /\ now' >= j.startTime + j.duration
                      \/ batchSeq' = batchSeq + 1
        /\ \A b \in DOMAIN tweens' :
             (\A a \in DOMAIN tweens : ~SameJob(tweens[a], tweens'[b])) =>
                 /\ batchSeq' = batchSeq + 1
                 /\ tweens'[b].batch = batchSeq'
                 /\ ~tweens'[b].started
        /\ \A i \in DOMAIN objects \cap DOMAIN objects' :
             objects'[i] # objects[i] =>
                 /\ last' = "animate"
                 /\ \E a \in DOMAIN tweens :
                      /\ tweens[a].obj = i
                      /\ tweens[a].batch = batchSeq
                      /\ now' >= tweens[a].startTime ]_vars

\* After a transform that removed live jobs, a tick inside the stagger: one
\* job is running and another is still pending.
C8_Witness ==
    /\ last = "animate"
    /\ interrupted
    /\ \E a, b \in DOMAIN tweens : tweens[a].started /\ ~tweens[b].started

\* The eased value of job j at timestamp time.
ValueAt(j, time) == CubicInOut(Elapsed(time, j.startTime, j.duration))

\* Mesh i shows what job j gives it at timestamp time.
ShowsAt(j, time) ==
    IF j.kind = "pos"
    THEN objects[j.obj].pos = Lerp(j.from, j.to, ValueAt(j, time))
    ELSE objects[j.obj].quat
             \in Slerp(j.startQuat, j.targetQuat, Lerp(j.from, j.to, ValueAt(j, time)))

\* C9: after an animate tick with timestamp T every live job whose start T
\* has reached has been advanced to T, that one timestamp, and the others
\* are untouched; a frame rendered in the tick shows the meshes as they are
\* after all jobs were advanced; and no job that is due by T is left in the
\* registry.
C9_OneTimestampPerTick ==
    /\ last = "animate" =>
         \A a \in DOMAIN tweens :
             IF now >= tweens[a].startTime
             THEN tweens[a].started /\ ShowsAt(tweens[a], now)
             ELSE ~tweens[a].started
    /\ (last = "animate" /\ frame.time = now) => frame.poses = objects
    /\ \A a \in DOMAIN tweens :
         last = "animate" => now < tweens[a].startTime + tweens[a].duration

\* A tick rendered a frame while the jobs of two meshes were running and
\* had moved them.
C9_Witness ==
    /\ last = "animate"
    /\ frame.time = now
    /\ \E a, b \in DOMAIN tweens :
         /\ tweens[a].obj # tweens[b].obj
         /\ tweens[a].started
         /\ tweens[b].started
         /\ tweens[a].kind = "pos"
         /\ tweens[b].kind = "pos"
         /\ objects[tweens[a].obj].pos # tweens[a].from
         /\ objects[tweens[b].obj].pos # tweens[b].from

\* The latest transform call gave mesh i the pose it already had.
NoOpFor(i) == goal[i] = origin[i]

\* C10 as stated: when the latest transform call gave every mesh the pose
\* it already had, every mesh keeps exactly that pose at every tick of the
\* transition and at its end.
C10_PoseNeverChanges ==
    (\A i \in Overlap : NoOpFor(i)) => \A i \in Overlap : objects[i] = origin[i]

\* C10: a mesh that the latest transform call gave the pose it already had
\* keeps exactly its position at every tick and at the end; it keeps
\* exactly its orientation at every tick when that is the identity, and in
\* any case once its jobs are done; while its rotation job runs, an
\* orientation other than the identity is the starting one up to the
\* rounding of the interpolation.
C10_NoOpUpToRounding ==
    \A i \in Overlap :
        NoOpFor(i) =>
            /\ objects[i].pos = origin[i].pos
            /\ objects[i].quat \in {origin[i].quat, Near(origin[i].quat)}
            /\ (origin[i].quat = Identity \/ JobsOf(i) = {})
                   => objects[i].quat = origin[i].quat

\* A transition to the sphere has ended for a mesh that stood at its sphere
\* pose when the transition was called.
C10_Witness ==
    /\ last = "animate"
    /\ \E i \in Overlap :
         /\ NoOpFor(i)
         /\ origin[i].quat.k = "sphere"
         /\ now >= DueTime(i)
         /\ JobsOf(i) = {}

\* The delay of a live job: how long after the call it starts.
DelayOf(j) == j.startTime - callTime

\* C11: the position job and the orientation job of the mesh with index i
\* (counted from 0) both start min(6 i, 300) ms after the transform call and
\* both run for 1200 ms; the delay does not decrease with i and is at most
\* 300.
C11_StaggeredStart ==
    /\ \A a \in DOMAIN tweens :
         /\ DelayOf(tweens[a]) =
              (IF 6 * (tweens[a].obj - 1) < 300 THEN 6 * (tweens[a].obj - 1) ELSE 300)
         /\ DelayOf(tweens[a]) <= 300
         /\ tweens[a].duration = 1200
    /\ \A a, b \in DOMAIN tweens :
         /\ tweens[a].obj = tweens[b].obj =>
              /\ tweens[a].startTime = tweens[b].startTime
              /\ tweens[a].duration = tweens[b].duration
         /\ tweens[a].obj <= tweens[b].obj => DelayOf(tweens[a]) <= DelayOf(tweens[b])

\* A button was clicked with more than 51 tiles: tile 49 waits 294 ms and
\* tiles 50 and 51 both wait 300 ms, each with its two jobs.
C11_Witness ==
    /\ last = "click"
    /\ \E a, b, c \in DOMAIN tweens :
         /\ tweens[a].obj = 50 /\ DelayOf(tweens[a]) = 294
         /\ tweens[b].obj = 51 /\ DelayOf(tweens[b]) = 300
         /\ tweens[c].obj = 52 /\ DelayOf(tweens[c]) = 300
    /\ \A i \in 1..Len(objects) : Cardinality(JobsOf(i)) = 2

\* C12: a buildTargets call with the count of the call before it leaves the
\* four formations (and the geometry behind them, and _helixMeta) exactly
\* as that call left them, whatever meshes are live and whatever happened in
\* between: the result depends on count and the constants only.
C12_SameCountSameTargets ==
    [][ (last' = "buildTargets" /\ built # << >> /\ built' = Append(built, LastCount))
            => /\ targets' = targets
               /\ layout' = layout
               /\ helixMeta' = helixMeta ]_vars

\* buildTargets has run twice with the same count, the second time with
\* another number of meshes and with jobs live.
C12_Witness ==
    /\ last = "buildTargets"
    /\ Len(built) = 2
    /\ built[1] = built[2]
    /\ built[1] = MaxCount
    /\ Len(objects) # LastCount
    /\ tweens # << >>

\* The square of the distance of a laid-out item from the origin.
Dist2(p) == p.x * p.x + p.y * p.y + p.z * p.z

C14_AcosArgumentInside ==
    /\ \A n \in DOMAIN layout.sphere :
         LET p == layout.sphere[n]
         IN  /\ p.den >= 1
             /\ -p.den < p.num
             /\ p.num < p.den
             /\ -TrigUnit < p.arg
             /\ p.arg < TrigUnit
    /\ (built # << >> /\ LastCount = 0) => layout.sphere = << >>

\* A sphere of MaxTiles items has been laid out: the first and the last
\* item have the arguments nearest -1 and 1.
C14_Witness ==
    /\ loaded
    /\ Len(layout.sphere) = MaxTiles
    /\ layout.sphere[1].num = 1 - MaxTiles
    /\ layout.sphere[MaxTiles].num = MaxTiles - 1

\* C15: whenever the helix has an even-index item and the odd-index item of
\* the same pair (so count >= 2), the angle of the odd one is the angle of
\* the even one plus PI + 0.4 * angleStep (PI + 0.1 for angleStep 0.25),
\* which is not zero and is the same for every pair.
C15_FixedStrandOffset ==
    \A n, m \in DOMAIN layout.helix :
        LET even == layout.helix[n]
            odd == layout.helix[m]
        IN  (even.pair = odd.pair /\ even.strand = 0 /\ odd.strand = 1) =>
                /\ odd.angle = AddAngle(even.angle, Angle(1, 100))
                /\ odd.angle # even.angle
                /\ odd.i = even.i + 1

\* A helix of MaxTiles items has been laid out: the first two pairs are
\* at 0 and PI + 0.1, and at 0.25 and PI + 0.35.
C15_Witness ==
    /\ loaded
    /\ Len(layout.helix) = MaxTiles
    /\ layout.helix[1].angle = Angle(0, 0)
    /\ layout.helix[2].angle = Angle(1, 100)
    /\ layout.helix[3].angle = Angle(0, 250)
    /\ layout.helix[4].angle = Angle(1, 350)

\* The items of the helix that the latest call laid out.
LatestHelix == SubSeq(layout.helix, Len(layout.helix) - LastCount + 1, Len(layout.helix))

\* C16: with angleStep = 0.8 the helix angle of item i is
\* floor(i / 2) * 0.8 for even i and floor(i / 2) * 0.8 + PI + 0.32 for odd
\* i; for count = 2, item 0 has angle 0 and item 1 has angle PI + 0.32.
C16_HelixAngleFormula ==
    built # << >> =>
        /\ Len(LatestHelix) = LastCount
        /\ \A n \in 1..LastCount :
             LET p == LatestHelix[n]
             IN  /\ p.i = n - 1
                 /\ p.i % 2 = 0 => p.angle = Angle(0, (p.i \div 2) * 800)
                 /\ p.i % 2 = 1 => p.angle = Angle(1, (p.i \div 2) * 800 + 320)
        /\ LastCount = 2 =>
             /\ LatestHelix[1].angle = Angle(0, 0)
             /\ LatestHelix[2].angle = Angle(1, 320)

\* The generator has run with count = 2, after an earlier run with more
\* items.
C16_Witness ==
    /\ last = "buildTargetsCss"
    /\ Len(built) = 2
    /\ built[1] > 2
    /\ LastCount = 2
    /\ LatestHelix[2].angle = Angle(1, 320)

\* C17: table item i is at column i mod 20 and row floor(i / 20) mod 10,
\* that is at (col * 220 - 2200, -row * 260 + 1200, 0), and the pose of the
\* formation carries that position; for count = 47, item 25 has column 5
\* and row 1 and item 0 has column 0 and row 0.
C17_TableColumnsAndRows ==
    /\ Len(layout.table) = Len(targets.table)
    /\ \A n \in DOMAIN layout.table :
         LET p == layout.table[n]
         IN  /\ p.i = n - 1
             /\ p.col = p.i % 20
             /\ p.row = (p.i \div 20) % 10
             /\ p.x = p.col * 220 - 2200
             /\ p.y = 1200 - p.row * 260
             /\ p.z = 0
             /\ targets.table[n].pos = p.x
    /\ Len(layout.table) = 47 =>
         /\ layout.table[26].col = 5
         /\ layout.table[26].row = 1
         /\ layout.table[1].col = 0
         /\ layout.table[1].row = 0

\* A table of 47 items has been laid out; item 25 stands at (-1100, 940, 0).
C17_Witness ==
    /\ loaded
    /\ Len(layout.table) = 47
    /\ layout.table[26].x = -1100
    /\ layout.table[26].y = 940
    /\ targets.table[26].pos = -1100

\* C18: a transform call leaves every mesh with the position and the
\* quaternion it had when the call was made and returns at once: the clock
\* has not advanced and every job it scheduled is still pending; a pose
\* changes only in an animate tick (or when buildTiles replaces the
\* meshes).
C18_TransformOnlySchedules ==
    [][ /\ batchSeq' # batchSeq =>
             /\ objects' = origin'
             /\ last' = "click" => objects' = objects
             /\ now' = now
             /\ \A a \in DOMAIN tweens' : ~tweens'[a].started
             /\ \A i \in 1..Min(Len(objects'), Len(goal')) :
                  Cardinality({a \in DOMAIN tweens' : tweens'[a].obj = i}) = 2
        /\ objects' # objects => last' \in {"animate", "load"}
        /\ (objects' # objects /\ last' = "load") => objects = << >> ]_vars

\* A button was clicked while a transition was running: the meshes stand
\* where they stood, away from their new targets, and the new jobs wait.
C18_Witness ==
    /\ last = "click"
    /\ interrupted
    /\ now > 0
    /\ objects = origin
    /\ tweens # << >>
    /\ \E i \in Overlap : objects[i] # goal[i] /\ objects[i].quat.k = "mid"

\* C19: a buildTargets call leaves the live meshes, their poses and their
\* jobs as they are; a transform call and an animate tick leave the four
\* formations, and every pose stored in them, as they are.
C19_GeneratorAndEngineApart ==
    [][ /\ built' # built =>
             /\ objects' = objects
             /\ tweens' = tweens
             /\ gen' = gen
        /\ (batchSeq' # batchSeq \/ clicks' # clicks \/ now' # now) =>
             /\ targets' = targets
             /\ layout' = layout
             /\ helixMeta' = helixMeta ]_vars

\* buildTargets has run while meshes were live and jobs of earlier meshes
\* were in the registry, and a transition to the new targets is under way.
C19_Witness ==
    /\ last = "animate"
    /\ Len(built) = 2
    /\ LastCount >= 1
    /\ tweens # << >>
    /\ origin # << >>
    /\ interrupted
    /\ \E i \in Overlap : objects[i] # origin[i] /\ objects[i] # goal[i]

\* Meshes objs show what job j gives its mesh at timestamp time.
ShownBy(objs, j, time) ==
    IF j.kind = "pos"
    THEN objs[j.obj].pos = Lerp(j.from, j.to, ValueAt(j, time))
    ELSE objs[j.obj].quat
             \in Slerp(j.startQuat, j.targetQuat, Lerp(j.from, j.to, ValueAt(j, time)))

\* C20: in every animate tick that finds a live job, rendering or not, every
\* job whose start the tick's timestamp has reached is advanced to that
\* timestamp (its mesh shows the value for it, and the job is started, or
\* removed when its duration is over), every other job is kept as it is,
\* and the frame is either drawn in the tick or left marked as due.
C20_AdvanceWhetherOrNotRendered ==
    [][ (now' # now /\ tweens # << >>) =>
          /\ \A a \in DOMAIN tweens :
               LET j == tweens[a]
                   left == {b \in DOMAIN tweens' : SameJob(tweens'[b], j)}
               IN  IF now' < j.startTime
                   THEN \E b \in left : tweens'[b] = j
                   ELSE /\ ShownBy(objects', j, now')
                        /\ IF now' >= j.startTime + j.duration
                           THEN left = {}
                           ELSE \E b \in left : tweens'[b] = [j EXCEPT !.started = TRUE]
          /\ frame'.time = now' \/ (frame' = frame /\ needsRender')
          /\ frame'.time = now' <=> now' - lastFrame > 16 ]_vars

\* A tick that came 16 ms or less after the last rendered frame drew
\* nothing, and yet moved a mesh on from where that frame shows it.
C20_Witness ==
    /\ last = "animate"
    /\ lastFrame > 0
    /\ now > lastFrame
    /\ now - lastFrame <= 16
    /\ frame.time = lastFrame
    /\ needsRender
    /\ \E a \in DOMAIN tweens :
         /\ tweens[a].kind = "pos"
         /\ tweens[a].started
         /\ ShownBy(objects, tweens[a], now)
         /\ objects[tweens[a].obj].pos # frame.poses[tweens[a].obj].pos

\* The three ranges of a number.
Below(n) == n.neg \/ n.int < 100000

Between(n) ==
    ~n.neg /\ (n.int \in 100000..199999 \/ (n.int = 200000 /\ ~n.frac))

Above(n) == ~n.neg /\ (n.int > 200000 \/ (n.int = 200000 /\ n.frac))

\* Colour c is the category of number n.
CategoryOf(n, c) ==
    /\ c \in {"red", "orange", "green"}
    /\ c = "red" <=> Below(n)
    /\ c = "orange" <=> Between(n)
    /\ c = "green" <=> Above(n)

\* C21: every number gets exactly one colour: red below 100000, orange from
\* 100000 to 200000 inclusive, green above 200000; that is what netColor
\* returns for the number it reads from a text and what pickColor returns
\* for the number parseNetWorth hands it, and on either number the two
\* helpers give the same colour.
C21_ColourByThreshold ==
    last = "colour" =>
        /\ ~colour.num.nan =>
             /\ CategoryOf(colour.num, colour.netColor)
             /\ colour.pickOfNum = colour.netColor
        /\ ~colour.worth.nan
        /\ CategoryOf(colour.worth, colour.pickColor)
        /\ colour.netOfWorth = colour.pickColor

\* The text "$200,000" was coloured: both helpers read 200000, the upper
\* end of the middle range, and both say orange.
C21_Witness ==
    /\ last = "colour"
    /\ net = <<"$", "2", "0", "0", "0", "0", "0">>
    /\ colour.num = Num(FALSE, 200000, FALSE)
    /\ colour.worth = colour.num
    /\ colour.netColor = "orange"
    /\ colour.pickColor = "orange"

\* The number of layers of a grid of count items: the least number of
\* layers of 20 that hold them.
LayersFor(count) == CHOOSE k \in 0..count : 20 * k >= count /\ 20 * (k - 1) < count

\* C22: grid item i is at depth layer * 400 - totalDepth / 2, with layer the
\* whole part of i / 20 and totalDepth = (ceil(count / 20) - 1) * 400, so
\* the depths of the first and the last item's layers sum to zero.
C22_GridLayersCentred ==
    LET count == Len(layout.grid)
        totalDepth == (LayersFor(count) - 1) * 400
    IN  /\ \A n \in 1..count :
             LET item == layout.grid[n]
                 layer == CHOOSE k \in 0..count :
                              20 * k <= item.i /\ item.i < 20 * (k + 1)
             IN  /\ item.i = n - 1
                 /\ 2 * item.z = 2 * layer * 400 - totalDepth
        /\ count >= 1 => layout.grid[1].z + layout.grid[count].z = 0

\* A grid of three layers was built: the first at -400, the last at 400.
C22_Witness ==
    /\ Len(layout.grid) > 40
    /\ layout.grid[1].z = -400
    /\ layout.grid[20].z = -400
    /\ layout.grid[21].z = 0
    /\ layout.grid[Len(layout.grid)].z = 400

\* The number of pairs of a helix of count items: the least number of pairs
\* that hold them.
PairsFor(count) == CHOOSE k \in 0..count : 2 * k >= count /\ 2 * (k - 1) < count

\* C23: with p the pair of a helix item (items 2p and 2p + 1), the item's
\* height is p * 40 - (ceil(count / 2) - 1) * 40 / 2, so both items of a
\* pair share it and the lowest and the highest height sum to zero; and
\* window._helixMeta holds the radius the items are placed at and
\* totalHeight = ceil(count / 2) * 40.
C23_HelixHeightsAndMeta ==
    LET count == Len(layout.helix)
        pairs == PairsFor(count)
    IN  /\ \A n \in 1..count :
             LET item == layout.helix[n]
                 p == CHOOSE k \in 0..count : item.i \in {2 * k, 2 * k + 1}
             IN  /\ item.i = n - 1
                 /\ 2 * item.y = 2 * p * 40 - (pairs - 1) * 40
                 /\ item.radius = helixMeta.radius
        /\ \A n \in 1..(count - 1) :
             n % 2 = 1 => layout.helix[n].y = layout.helix[n + 1].y
        /\ count >= 1 => layout.helix[1].y + layout.helix[count].y = 0
        /\ built # << >> =>
             helixMeta = [radius |-> 800, totalHeight |-> pairs * 40]

\* A helix of an odd number of items, more than two pairs, was built.
C23_Witness ==
    /\ Len(layout.helix) = 7
    /\ layout.helix[1].y = -60
    /\ layout.helix[2].y = -60
    /\ layout.helix[7].y = 60
    /\ helixMeta = [radius |-> 800, totalHeight |-> 160]

\* Items a and b of a layout are at the same position.
SamePlace(a, b) == a.x = b.x /\ a.y = b.y /\ a.z = b.z

\* C29: no two distinct items of the grid formation are at the same
\* position.
C29_GridInjective ==
    \A m, n \in DOMAIN layout.grid :
        m # n => ~SamePlace(layout.grid[m], layout.grid[n])

\* A grid of more than two layers was built, whose items 1 and 21 differ
\* in depth only.
C29_Witness ==
    /\ Len(layout.grid) > 40
    /\ layout.grid[1].x = layout.grid[21].x
    /\ layout.grid[1].y = layout.grid[21].y
    /\ layout.grid[1].z # layout.grid[21].z

\* C30: two distinct table items are at the same position exactly when
\* their indices differ by a multiple of 200: the positions of a table of at
\* most 200 items are pairwise distinct, and item i + 200 lands on item i.
C30_TableWrapsAt200 ==
    \A m, n \in DOMAIN layout.table :
        m # n => (SamePlace(layout.table[m], layout.table[n]) <=> (m - n) % 200 = 0)

\* A table of more than 200 items was built: item 200 is on item 0.
C30_Witness ==
    /\ Len(layout.table) > 200
    /\ layout.table[201].i = 200
    /\ SamePlace(layout.table[201], layout.table[1])
    /\ ~SamePlace(layout.table[200], layout.table[1])

\* The live jobs of the given kind of mesh i.
JobsOfKind(i, kind) == {a \in JobsOf(i) : tweens[a].kind = kind}

ObjJobsOf(i) == {a \in DOMAIN tweens : tweens[a].kind = "obj" /\ tweens[a].obj = i}

\* C24: the variant's transform leaves every live job in the registry and
\* adds its own behind them, so a mesh that had a job live gets a second
\* one from the new call; and a tick advances every live job, those of the
\* earlier calls and those of the latest alike, each until its own
\* duration is over.
C24_VariantStacksJobs ==
    [][ /\ batchSeq' # batchSeq =>
             /\ Len(tweens') > Len(tweens)
             /\ SubSeq(tweens', 1, Len(tweens)) = tweens
             /\ \A b \in (Len(tweens) + 1)..Len(tweens') :
                  tweens'[b].batch = batchSeq' /\ ~tweens'[b].started
             /\ \A a \in DOMAIN tweens :
                  (tweens[a].kind = "obj" /\ tweens[a].obj <= Len(goal')) =>
                      \E b \in (Len(tweens) + 1)..Len(tweens') :
                          tweens'[b].kind = "obj" /\ tweens'[b].obj = tweens[a].obj
        /\ now' # now =>
             \A a \in DOMAIN tweens :
                 IF now' >= tweens[a].startTime + tweens[a].duration
                 THEN \A b \in DOMAIN tweens' : ~SameJob(tweens'[b], tweens[a])
                 ELSE \E b \in DOMAIN tweens' :
                          tweens'[b] = [tweens[a] EXCEPT !.started = TRUE] ]_vars

\* After a tick, a mesh has a running job of one transition and a running
\* job of a later one, and is on the target of neither.
C24_Witness ==
    /\ last = "animate"
    /\ \E i \in DOMAIN objects :
         \E a, b \in ObjJobsOf(i) :
             /\ tweens[a].batch < tweens[b].batch
             /\ tweens[a].started
             /\ tweens[b].started
             /\ tweens[a].to # tweens[b].to
             /\ objects[i].pos # tweens[a].to
             /\ objects[i].pos # tweens[b].to

\* A frame was drawn in the step.
Rendered == frame' # frame

\* C25: a render flag that is set stays set until a frame is drawn; a tick
\* that comes more than 16 ms after lastFrame and finds a flag set, or sets
\* one, draws a frame, which shows the meshes as the tick leaves them and
\* after which both flags are clear; so a tick that ends a transition draws
\* the final poses or leaves needsRender set for the tick that will.
C25_FlagsKeptUntilRender ==
    [][ /\ (needsRender /\ ~needsRender') => Rendered
        /\ (forceFullRender /\ ~forceFullRender') => Rendered
        /\ (now' # now /\ now' - lastFrame > 16
              /\ (needsRender \/ forceFullRender \/ needsRender' \/ tweens # << >>))
             => Rendered
        /\ Rendered =>
             /\ now' # now
             /\ frame' = [time |-> now', poses |-> objects']
             /\ ~needsRender'
             /\ ~forceFullRender'
        /\ (now' # now /\ tweens # << >> /\ tweens' = << >>) =>
             \/ frame'.poses = objects'
             \/ needsRender' ]_vars

\* A transition ended in a throttled tick, which drew nothing, while the
\* controls had asked for a full render: both flags are waiting.
C25_Witness ==
    /\ last = "animate"
    /\ batchSeq > 0
    /\ tweens = << >>
    /\ Len(origin) > 1
    /\ Len(goal) >= Len(origin)
    /\ lastFrame < callTime + Delay(Len(origin) - 1) + Duration
    /\ callTime + Delay(Len(origin) - 1) + Duration <= now
    /\ now - lastFrame <= 16
    /\ frame.time = lastFrame
    /\ needsRender
    /\ forceFullRender

\* The tiles whose hover flag is set.
Hovered == {n \in DOMAIN tilesMeta : tilesMeta[n].hover}

\* C27: at most one tile has hover = true, and such a tile is the one whose
\* mesh is lastHover; after a pointer move that hit no tile, no tile has
\* hover = true and lastHover is null.
C27_OneHoverAtLastHover ==
    /\ Cardinality(Hovered) <= 1
    /\ \A n \in Hovered : tilesMeta[n].mesh = lastHover
    /\ last = "miss" => Hovered = {} /\ lastHover = NoMesh

\* The pointer went from one tile to another: the second has the flag, the
\* first has lost it.
C27_Witness ==
    /\ last = "hit"
    /\ moves > 1
    /\ Len(tilesMeta) > 1
    /\ Hovered = {2}
    /\ lastHover = tilesMeta[2].mesh
    /\ \E r \in BagToSet(rasters) : r.idx = 1 /\ ~r.useHover

\* Tile n has an html2canvas call or an image conversion under way.
InFlight(n) ==
    \/ \E r \in BagToSet(rasters) : r.idx = n /\ r.gen = tilesMeta[n].mesh.gen
    \/ n \in images

\* C28: once nothing is in flight for a tile, its canvas shows the hover
\* appearance exactly when its hover flag is true, in whatever order the
\* rasterizations of the tile completed.
C28_CanvasFollowsHover ==
    \A n \in DOMAIN tilesMeta :
        ~InFlight(n) => (tilesMeta[n].canvas <=> tilesMeta[n].hover)

====
